---------------------------- MODULE Spec2Model ----------------------------
(***************************************************************************)
(* Model of src/ephemeris_calculator.py (SwissEphemerisCalculator).        *)
(*                                                                         *)
(* Numbers.  Every Python float of the program (longitude, latitude,       *)
(* distance, speed, orb, difference) is an IEEE double and is modelled by  *)
(* its exact value with the rounding of every operation (see IEEE doubles  *)
(* below).  The results of round(x, 4) and round(x, 6) are modelled by the *)
(* decimal they denote, as a count of 1/10^4 resp. 1/10^6.                 *)
(*                                                                         *)
(* The Swiss Ephemeris engine (swe.calc_ut) is external.  Its answers are  *)
(* the input of the program: the variable engine determines, for every     *)
(* instant the program asks about, the answer of the engine for every      *)
(* planet (see calc_ut below).                                             *)
(*                                                                         *)
(* Display-only fields that no computation reads (symbol, name_vi,         *)
(* zodiac_sign_vi, datetime_utc, julian_day, timezone_offset) are left out *)
(* of the records.                                                         *)
(***************************************************************************)
EXTENDS Integers, Sequences, FiniteSets, TLC

VARIABLES
    engine,          \* what the engine knows: a sky and the calls that fail
    orb,             \* detect_aspects: the orb of the last call
    pc,              \* position of the program
    day,             \* calculate_monthly_data: loop variable day
    hour,            \* calculate_monthly_data: loop variable hour
    minute,          \* calculate_monthly_data: loop variable minute
    positions,       \* the snapshot last computed (an insertion-ordered dict)
    prev_positions,  \* calculate_monthly_data: prev_positions (None or a dict)
    aspects,         \* result of the last detect_aspects call
    ingress,         \* result of the last detect_ingress call
    all_data,        \* calculate_monthly_data: all_data
    aspects_all,     \* calculate_monthly_data: aspects_all
    ingress_all      \* calculate_monthly_data: ingress_all

vars == <<engine, orb, pc, day, hour, minute, positions, prev_positions,
          aspects, ingress, all_data, aspects_all, ingress_all>>

---------------------------------------------------------------------------
(* Bounds of the model. *)

\* Number of days of the month walked by the driver (28..31 in the program).
DaysInMonth == 1

\* Number of hours walked per day (24 in the program).
HoursPerDay == 2

\* Largest number of (instant, planet) engine calls that fail in one run of
\* the driver, beyond the planets the ephemeris files do not cover at all.
MaxFaults == 1

\* Largest number of planets the engine answers for at one instant in the
\* single-snapshot specification (the other planets fail and are omitted).
MaxBodies == 2

\* The doubles around a point of the circle in the node specification: this
\* many steps of 2^-44 degree to either side.
MaxLo == 3

---------------------------------------------------------------------------
(* IEEE doubles.  A Python float is modelled by its exact value, written   *)
(* in binary: a sign, an integer part and the fraction bits in limbs of 14 *)
(* bits, most significant first, as many as the value needs and with no    *)
(* zero limb at the end.  The results of +, - and * are rounded to the     *)
(* nearest double (53 significant bits, ties to even) as the hardware      *)
(* does; % and // on non-negative floats are exact.  round(x, n) gives the *)
(* decimal with n places nearest to the exact value of x, ties to even,    *)
(* and is modelled by the count of units of 10^-n: the float it returns is *)
(* the double nearest to that decimal.                                     *)

Limb == 16384

\* The sequence f without its trailing zeros.
RECURSIVE Trim(_)
Trim(f) ==
    IF f /= <<>> /\ f[Len(f)] = 0 THEN Trim(SubSeq(f, 1, Len(f) - 1)) ELSE f

\* The sequence f with zeros appended up to length n.
Pad(f, n) == f \o [i \in 1..(n - Len(f)) |-> 0]

\* The double n + f[1]/2^14 + f[2]/2^28 + ...
Dbl(n, f) == [neg |-> FALSE, int |-> n, frac |-> f]

DDeg(n) == Dbl(n, <<>>)

FullCircle == 360

HalfCircle == 180

SignWidth == 30

\* -x
Neg(x) == [x EXCEPT !.neg = ~x.neg]

IsZero(x) == x.int = 0 /\ x.frac = <<>>

\* x < 0 (false for -0.0)
IsNegative(x) == x.neg /\ ~IsZero(x)

\* |x| < |y|
MagLess(x, y) ==
    LET n == IF Len(x.frac) > Len(y.frac) THEN Len(x.frac) ELSE Len(y.frac)
        f == Pad(x.frac, n)
        g == Pad(y.frac, n)
    IN  \/ x.int < y.int
        \/ /\ x.int = y.int
           /\ \E i \in 1..n : /\ f[i] < g[i]
                              /\ \A k \in 1..(i - 1) : f[k] = g[k]

MagLeq(x, y) == ~MagLess(y, x)

\* Limbs that left the range 0..Limb-1 brought back into it, from the last
\* one up; carry is what goes over into the integer part.
RECURSIVE Carry(_, _)
Carry(raw, c) ==
    IF raw = <<>> THEN [carry |-> c, limbs |-> <<>>]
    ELSE LET n    == Len(raw)
             t    == raw[n] + c
             rest == Carry(SubSeq(raw, 1, n - 1), t \div Limb)
         IN  [carry |-> rest.carry, limbs |-> Append(rest.limbs, t % Limb)]

\* The non-negative number int + raw[1]/2^14 + ..., in canonical form.
Exact(int, raw) ==
    LET r == Carry(raw, 0)
    IN  [neg |-> FALSE, int |-> int + r.carry, frac |-> Trim(r.limbs)]

\* |x| + |y|, exact
MagSum(x, y) ==
    LET n == IF Len(x.frac) > Len(y.frac) THEN Len(x.frac) ELSE Len(y.frac)
        f == Pad(x.frac, n)
        g == Pad(y.frac, n)
    IN  Exact(x.int + y.int, [i \in 1..n |-> f[i] + g[i]])

\* |x| - |y| for |x| >= |y|, exact
MagDiff(x, y) ==
    LET n == IF Len(x.frac) > Len(y.frac) THEN Len(x.frac) ELSE Len(y.frac)
        f == Pad(x.frac, n)
        g == Pad(y.frac, n)
    IN  Exact(x.int - y.int, [i \in 1..n |-> f[i] - g[i]])

\* |x| * k for a natural k <= 10000, exact
MagTimes(x, k) ==
    Exact(x.int * k, [i \in 1..Len(x.frac) |-> x.frac[i] * k])

\* The number of bits of the natural n.
RECURSIVE BitLen(_)
BitLen(n) == IF n = 0 THEN 0 ELSE 1 + BitLen(n \div 2)

\* The index of the first non-zero limb of a non-empty canonical fraction.
RECURSIVE First(_, _)
First(f, i) == IF f[i] /= 0 THEN i ELSE First(f, i + 1)

\* The number of fraction bits of the doubles in the binade of x /= 0: a
\* double in [2^e, 2^(e+1)) is a multiple of 2^(e-52).
FractionBits(x) ==
    IF x.int > 0 THEN 53 - BitLen(x.int)
    ELSE LET i == First(x.frac, 1)
         IN  53 + 14 * i - BitLen(x.frac[i])

\* The double nearest to the number x, ties to even.
Nearest(x) ==
    IF IsZero(x) THEN x
    ELSE LET k == FractionBits(x)
             j == k \div 14 + 1
             r == k % 14
         IN  IF j > Len(x.frac) THEN x
             ELSE LET unit   == 2 ^ (14 - r)
                      low    == x.frac[j] % unit
                      down   == x.frac[j] - low
                      sticky == \E i \in (j + 1)..Len(x.frac) : x.frac[i] /= 0
                      odd    == IF r > 0 THEN (down \div unit) % 2 = 1
                                ELSE IF j = 1 THEN x.int % 2 = 1
                                ELSE x.frac[j - 1] % 2 = 1
                      up     == \/ 2 * low > unit
                                \/ 2 * low = unit /\ (sticky \/ odd)
                      last   == IF up THEN down + unit ELSE down
                      y      == Exact(x.int,
                                      Append(SubSeq(x.frac, 1, j - 1), last))
                  IN  [y EXCEPT !.neg = x.neg]

\* abs(x - y) for non-negative floats x and y
AbsSub(x, y) ==
    IF MagLess(x, y) THEN Nearest(MagDiff(y, x)) ELSE Nearest(MagDiff(x, y))

\* x + y for non-negative floats x and y
Add(x, y) == Nearest(MagSum(x, y))

\* x % 360 for a non-negative float x (fmod is exact)
Mod360(x) == [x EXCEPT !.int = x.int % FullCircle]

\* The fraction |x| - int(|x|)
Frac(x) == [neg |-> FALSE, int |-> 0, frac |-> x.frac]

\* The signed count of decimal units nearest to a number of count units and
\* a fraction rest of a unit, ties to even.
Decimal(count, rest, neg) ==
    LET up == \/ MagLess(Dbl(0, <<Limb \div 2>>), rest)
              \/ rest.frac = <<Limb \div 2>> /\ count % 2 = 1
        n  == IF up THEN count + 1 ELSE count
    IN  IF neg THEN -n ELSE n

\* round(x, 4), in units of 0.0001
Round4(x) ==
    LET p == MagTimes(Frac(x), 10000)
    IN  Decimal(x.int * 10000 + p.int, Frac(p), x.neg)

\* round(x, 6), in units of 0.000001
Round6(x) ==
    LET p == MagTimes(Frac(x), 1000)
        s == MagTimes(Frac(p), 1000)
    IN  Decimal(x.int * 1000000 + p.int * 1000 + s.int, Frac(s), x.neg)

---------------------------------------------------------------------------
(* __init__: the tables. *)

\* self.planets, in insertion order.
planets ==
    <<"Sun", "Moon", "Mercury", "Venus", "Mars", "Jupiter", "Saturn",
      "Uranus", "Neptune", "Pluto", "Rahu">>

\* self.zodiac_signs (TLA+ sequences start at 1: sign index i is entry i+1).
zodiac_signs ==
    <<"Aries", "Taurus", "Gemini", "Cancer", "Leo", "Virgo",
      "Libra", "Scorpio", "Sagittarius", "Capricorn", "Aquarius", "Pisces">>

\* planet_order of calculate_monthly_data.
planet_order ==
    <<"Sun", "Moon", "Mercury", "Venus", "Mars", "Jupiter", "Saturn",
      "Uranus", "Neptune", "Pluto", "Rahu", "Ketu">>

SeqToSet(s) == {s[i] : i \in 1..Len(s)}

\* Position of a name in a sequence of names (0 when absent).
IndexOf(s, x) ==
    IF \E i \in 1..Len(s) : s[i] = x
    THEN CHOOSE i \in 1..Len(s) : s[i] = x
    ELSE 0

---------------------------------------------------------------------------
(* Insertion-ordered dicts: a sequence of entries, each carrying its key   *)
(* in the field planet.  None is the empty sequence of options, Some(d)    *)
(* the one-element sequence.                                               *)

Keys(d) == [i \in 1..Len(d) |-> d[i].planet]

Has(d, k) == \E i \in 1..Len(d) : d[i].planet = k

Get(d, k) == d[CHOOSE i \in 1..Len(d) : d[i].planet = k]

None == <<>>

Some(d) == <<d>>

---------------------------------------------------------------------------
(* get_zodiac_info *)

\* degree_formatted: the string D°MM'SS" is modelled by <<D, MM, SS>>.  The
\* minutes and seconds are the truncations of the float products
\* (degree_in_sign - degrees) * 60 and (that - minutes) * 60.
degree_formatted(degree_in_sign) ==
    LET degrees == degree_in_sign.int
        m60     == Nearest(MagTimes(Frac(degree_in_sign), 60))
        minutes == m60.int
        s60     == Nearest(MagTimes(Frac(m60), 60))
        seconds == s60.int
    IN  <<degrees, minutes, seconds>>

get_zodiac_info_ceil(longitude) ==
    LET sign_index     == IF longitude.int % SignWidth = 0
                             /\ IsZero(Frac(longitude))
                          THEN longitude.int \div SignWidth
                          ELSE longitude.int \div SignWidth + 1
        degree_in_sign == [longitude EXCEPT !.int = longitude.int % SignWidth]
    IN  [sign             |-> zodiac_signs[(sign_index % 12) + 1],
         sign_index       |-> sign_index,
         degree_in_sign   |-> degree_in_sign,
         degree_formatted |-> degree_formatted(degree_in_sign),
         longitude        |-> longitude]

\* For a longitude >= 0: longitude // 30 is the floor of the quotient and
\* longitude % 30 is exact (fmod).
get_zodiac_info(longitude) ==
    LET sign_index     == longitude.int \div SignWidth
        degree_in_sign == [longitude EXCEPT !.int = longitude.int % SignWidth]
    IN  [sign             |-> zodiac_signs[sign_index + 1],
         sign_index       |-> sign_index,
         degree_in_sign   |-> degree_in_sign,
         degree_formatted |-> degree_formatted(degree_in_sign),
         longitude        |-> longitude]

---------------------------------------------------------------------------
(* is_retrograde: the probe is the pair of engine calls at jd and jd + 1.  *)
(* probe.status is "raise" when one of them raises.  now and next are the  *)
(* two longitudes, in [0, 360).                                            *)

is_retrograde_nowrap(probe) ==
    IF probe.status = "ok" THEN MagLess(probe.next, probe.now) ELSE FALSE

\* speed = pos_next[0] - pos_now[0] has the sign of the comparison and the
\* magnitude AbsSub(next, now).  A speed > 180 becomes speed - 360, which
\* is negative when speed is below 360; a speed < -180 becomes speed + 360,
\* which is negative when speed is below -360.
is_retrograde(probe) ==
    IF probe.status = "ok"
    THEN LET size == AbsSub(probe.next, probe.now)
         IN  IF MagLess(probe.next, probe.now)
             THEN \/ ~MagLess(DDeg(HalfCircle), size)
                  \/ MagLess(DDeg(FullCircle), size)
             ELSE /\ MagLess(DDeg(HalfCircle), size)
                  /\ MagLess(size, DDeg(FullCircle))
    ELSE FALSE

---------------------------------------------------------------------------
(* calculate_planetary_positions *)

\* The entry positions[planet_name] built from a successful engine answer.
PlanetEntry(planet_name, ans) ==
    LET longitude   == ans.pos[1]
        zodiac_info == get_zodiac_info(longitude)
        is_retro    == is_retrograde(ans.probe)
    IN  [planet           |-> planet_name,
         longitude        |-> longitude,
         latitude         |-> ans.pos[2],
         distance         |-> ans.pos[3],
         longitude_speed  |-> ans.pos[4],
         latitude_speed   |-> ans.pos[5],
         distance_speed   |-> ans.pos[6],
         zodiac_sign      |-> zodiac_info.sign,
         sign_index       |-> zodiac_info.sign_index,
         degree_in_sign   |-> zodiac_info.degree_in_sign,
         degree_formatted |-> zodiac_info.degree_formatted,
         retrograde       |-> is_retro,
         motion           |-> IF is_retro THEN "R" ELSE "D"]

\* The loop over self.planets: a planet whose engine call raises or returns
\* a negative status is skipped (continue).
RECURSIVE PlanetLoopBreak(_, _)
PlanetLoopBreak(answers, i) ==
    IF i > Len(planets) THEN <<>>
    ELSE LET planet_name == planets[i]
             ans         == answers[planet_name]
         IN  IF ans.status = "ok"
             THEN <<PlanetEntry(planet_name, ans)>>
                  \o PlanetLoopBreak(answers, i + 1)
             ELSE <<>>

RECURSIVE PlanetLoop(_, _)
PlanetLoop(answers, i) ==
    IF i > Len(planets) THEN <<>>
    ELSE LET planet_name == planets[i]
             ans         == answers[planet_name]
         IN  IF ans.status = "ok"
             THEN <<PlanetEntry(planet_name, ans)>> \o PlanetLoop(answers, i + 1)
             ELSE PlanetLoop(answers, i + 1)

\* positions['Ketu'], derived from positions['Rahu'].
KetuEntry(rahu) ==
    LET ketu_long   == Mod360(Add(rahu.longitude, DDeg(HalfCircle)))
        ketu_zodiac == get_zodiac_info(ketu_long)
    IN  [planet           |-> "Ketu",
         longitude        |-> ketu_long,
         latitude         |-> Neg(rahu.latitude),
         distance         |-> rahu.distance,
         longitude_speed  |-> Neg(rahu.longitude_speed),
         latitude_speed   |-> Neg(rahu.latitude_speed),
         distance_speed   |-> rahu.distance_speed,
         zodiac_sign      |-> ketu_zodiac.sign,
         sign_index       |-> ketu_zodiac.sign_index,
         degree_in_sign   |-> ketu_zodiac.degree_in_sign,
         degree_formatted |-> ketu_zodiac.degree_formatted,
         retrograde       |-> rahu.retrograde,
         motion           |-> rahu.motion]

calculate_planetary_positions(answers) ==
    LET loop == PlanetLoop(answers, 1)
    IN  IF Has(loop, "Rahu")
        THEN Append(loop, KetuEntry(Get(loop, "Rahu")))
        ELSE loop

---------------------------------------------------------------------------
(* detect_aspects *)

\* aspect_types, in insertion order.
aspect_types_typo ==
    <<[name |-> "Conjunction", angle |-> 0],
      [name |-> "Opposition",  angle |-> 180],
      [name |-> "Square",      angle |-> 90],
      [name |-> "Trine",       angle |-> 100],
      [name |-> "Sextile",     angle |-> 60]>>

aspect_types ==
    <<[name |-> "Conjunction", angle |-> 0],
      [name |-> "Opposition",  angle |-> 180],
      [name |-> "Square",      angle |-> 90],
      [name |-> "Trine",       angle |-> 120],
      [name |-> "Sextile",     angle |-> 60]>>

\* diff of two longitudes: abs(lon1 - lon2) % 360, reflected above 180.
ShortestArc(lon1, lon2) ==
    LET diff == Mod360(AbsSub(lon1, lon2))
    IN  IF MagLess(DDeg(HalfCircle), diff)
        THEN AbsSub(DDeg(FullCircle), diff)
        ELSE diff

\* The test of one aspect angle against the orb.
WithinOrbStrict(diff, angle, o) == MagLess(AbsSub(diff, DDeg(angle)), o)

WithinOrb(diff, angle, o) == MagLeq(AbsSub(diff, DDeg(angle)), o)

\* The dict appended for one aspect of one pair.
AspectEvent(d, p1, p2, t, diff) ==
    [event          |-> "Aspect",
     type           |-> t.name,
     planet1        |-> p1,
     planet1_sign   |-> Get(d, p1).zodiac_sign,
     planet1_degree |-> Get(d, p1).degree_formatted,
     planet2        |-> p2,
     planet2_sign   |-> Get(d, p2).zodiac_sign,
     planet2_degree |-> Get(d, p2).degree_formatted,
     exact_angle    |-> t.angle,
     difference     |-> Round4(diff),
     orb            |-> Round4(AbsSub(diff, DDeg(t.angle)))]

\* The loop over aspect_types for the pair names[i], names[j].
RECURSIVE AngleLoop(_, _, _, _, _, _)
AngleLoop(d, p1, p2, diff, o, k) ==
    IF k > Len(aspect_types) THEN <<>>
    ELSE IF WithinOrb(diff, aspect_types[k].angle, o)
         THEN <<AspectEvent(d, p1, p2, aspect_types[k], diff)>>
              \o AngleLoop(d, p1, p2, diff, o, k + 1)
         ELSE AngleLoop(d, p1, p2, diff, o, k + 1)

\* The body of the inner loop: the Rahu-Ketu pair is skipped.
SkipPairNever(p1, p2) == FALSE

SkipPair(p1, p2) == {p1, p2} = {"Rahu", "Ketu"}

PairAspects(d, p1, p2, o) ==
    IF SkipPair(p1, p2) THEN <<>>
    ELSE AngleLoop(d, p1, p2,
                   ShortestArc(Get(d, p1).longitude, Get(d, p2).longitude),
                   o, 1)

\* for j in range(i+1, len(names))
RECURSIVE InnerLoop(_, _, _, _)
InnerLoop(d, o, i, j) ==
    IF j > Len(d) THEN <<>>
    ELSE PairAspects(d, Keys(d)[i], Keys(d)[j], o) \o InnerLoop(d, o, i, j + 1)

\* for i in range(len(names))
RECURSIVE OuterLoop(_, _, _)
OuterLoop(d, o, i) ==
    IF i > Len(d) THEN <<>>
    ELSE InnerLoop(d, o, i, i + 1) \o OuterLoop(d, o, i + 1)

detect_aspects(d, o) == OuterLoop(d, o, 1)

\* The default value of the parameter orb (1.0).
default_orb == DDeg(1)

---------------------------------------------------------------------------
(* detect_ingress *)

\* The dict appended for one planet whose sign changed.
IngressEventPre(pos, prev) ==
    [event     |-> "Ingress",
     planet    |-> pos.planet,
     from_sign |-> prev.zodiac_sign,
     to_sign   |-> pos.zodiac_sign,
     degree    |-> prev.degree_formatted,
     longitude |-> Round6(prev.longitude)]

IngressEvent(pos, prev) ==
    [event     |-> "Ingress",
     planet    |-> pos.planet,
     from_sign |-> prev.zodiac_sign,
     to_sign   |-> pos.zodiac_sign,
     degree    |-> pos.degree_formatted,
     longitude |-> Round6(pos.longitude)]

\* for planet, pos in positions.items()
RECURSIVE IngressLoop(_, _, _)
IngressLoop(d, prev, i) ==
    IF i > Len(d) THEN <<>>
    ELSE IF Has(prev, d[i].planet)
            /\ d[i].sign_index /= Get(prev, d[i].planet).sign_index
         THEN <<IngressEvent(d[i], Get(prev, d[i].planet))>>
              \o IngressLoop(d, prev, i + 1)
         ELSE IngressLoop(d, prev, i + 1)

\* "if prev_positions:" is false for None and for an empty dict.
detect_ingress_first(d, prev_opt) ==
    IF prev_opt /= None
    THEN IngressLoop(d, prev_opt[1], 1)
    ELSE [i \in 1..Len(d) |->
             [event |-> "Ingress", planet |-> d[i].planet,
              from_sign |-> d[i].zodiac_sign, to_sign |-> d[i].zodiac_sign,
              degree |-> d[i].degree_formatted,
              longitude |-> Round6(d[i].longitude)]]

detect_ingress(d, prev_opt) ==
    IF prev_opt /= None /\ Len(prev_opt[1]) > 0
    THEN IngressLoop(d, prev_opt[1], 1)
    ELSE <<>>

---------------------------------------------------------------------------
(* The engine: answers of swe.calc_ut.                                     *)
(*   status "ok"    : the call returned (pos, ret) with ret >= 0           *)
(*   status "neg"   : the call returned ret < 0                            *)
(*   status "raise" : the call raised                                      *)
(* pos is the 6-tuple (longitude, latitude, distance and their speeds);    *)
(* probe is what the two calls of is_retrograde saw (longitude at jd and   *)
(* at jd + 1), or status "raise" when one of them raised.                  *)

Probe(now, next) == [status |-> "ok", now |-> now, next |-> next]

ProbeRaises == [status |-> "raise", now |-> DDeg(0), next |-> DDeg(0)]

Ok(lon, lat, dist, lon_speed, lat_speed, dist_speed, probe) ==
    [status |-> "ok",
     pos    |-> <<lon, lat, dist, lon_speed, lat_speed, dist_speed>>,
     probe  |-> probe]

Failed(kind) ==
    [status |-> kind,
     pos    |-> <<DDeg(0), DDeg(0), DDeg(0), DDeg(0), DDeg(0), DDeg(0)>>,
     probe  |-> ProbeRaises]

\* How a failing call fails: both ways of failing occur for every planet,
\* the way depending on the grid cell.
FailureKind(n, p) ==
    IF (n + IndexOf(planets, p)) % 2 = 1 THEN "neg" ELSE "raise"

\* The subsets of S with at most k elements.
RECURSIVE UpTo(_, _)
UpTo(S, k) ==
    IF k = 0 THEN {{}}
    ELSE LET smaller == UpTo(S, k - 1)
         IN  smaller \cup {T \cup {x} : T \in smaller, x \in S}

---------------------------------------------------------------------------
(* What the engine knows.  A sky gives the planets the data files cover    *)
(* and, for each, a body: its longitude at grid cell 0 and its uniform     *)
(* motion from one cell to the next (a backward motion is a forward one of *)
(* 360 less), the rest of its 6-tuple, and what the probe of is_retrograde *)
(* sees.  A fault is one failing call for a covered planet.  Longitudes    *)
(* are doubles in [0, 360).                                                *)

Body(start, step, lat, dist, lon_speed, lat_speed, dist_speed, probe) ==
    [start |-> start, step |-> step, lat |-> lat, dist |-> dist,
     lon_speed |-> lon_speed, lat_speed |-> lat_speed,
     dist_speed |-> dist_speed, probe |-> probe]

\* The longitude of a body n cells after it was at x: the double nearest to
\* x + n * step mod 360.
Moved(x, step, n) == Nearest(Mod360(MagSum(x, MagTimes(step, n))))

\* swe.calc_ut for planet p at grid cell n.
calc_ut(eng, n, p) ==
    IF \E f \in eng.faults : f.cell = n /\ f.planet = p
    THEN Failed(FailureKind(n, p))
    ELSE IF p \in DOMAIN eng.sky
         THEN LET b == eng.sky[p]
              IN  Ok(Moved(b.start, b.step, n), b.lat, b.dist,
                     b.lon_speed, b.lat_speed, b.dist_speed, b.probe)
         ELSE Failed(FailureKind(n, p))

\* The answers for all planets at grid cell n.
Answers(eng, n) == [p \in SeqToSet(planets) |-> calc_ut(eng, n, p)]

---------------------------------------------------------------------------
(* Inputs of the single-snapshot specification: the bodies a planet may be *)
(* at the one instant asked about.  The comments give the repr of the      *)
(* doubles.                                                                *)

Bodies ==
    LET v1 == Dbl(1, <<0, 80, 8693, 15616>>)  \* 1.0000003
        v2 == Dbl(0, <<819, 3276, 13107, 3277>>)  \* 0.05
        v3 == Dbl(0, <<0, 671, 1452, 4550, 13432, 8192>>)  \* 2.5e-06
        v4 == Dbl(0, <<0, 187, 14824, 9138, 9003, 14336>>)  \* 7e-07
        v5 == Dbl(9, <<14745, 9830, 6553, 9856>>)  \* 9.9
        v6 == Dbl(0, <<8192>>)  \* 0.5
        v7 == Dbl(2, <<0, 80, 8693, 15616>>)  \* 2.0000003
        v8 == Dbl(359, <<8192>>)  \* 359.5
        v9 == Dbl(0, <<0, 80, 8693, 15619, 6199, 6144>>)  \* 3e-07
        v10 == Dbl(0, <<0, 348, 15828, 7609, 5018, 12288>>)  \* 1.3e-06
        v11 == Dbl(0, <<1638, 6553, 9830, 6554>>)  \* 0.1
        v12 == Dbl(359, <<14745, 9830, 6553, 8192>>)  \* 359.9
        v13 == Dbl(0, <<16320>>)  \* 0.99609375
        v14 == Dbl(0, <<0, 456, 5575, 1128, 7823, 4096>>)  \* 1.7e-06
        v15 == Dbl(0, <<16383, 16303, 7690, 768>>)  \* 0.9999997
        v16 == Dbl(0, <<0, 268, 7134, 8373, 15203, 4096>>)  \* 1e-06
        v17 == Dbl(29, <<16383, 16383, 16383, 16128>>)  \* 29.999999999999996
        v18 == Dbl(199, <<16383, 16383, 16383, 14336>>)  \* 199.99999999999997
        v19 == Dbl(220, <<3276, 13107, 3276, 12288>>)  \* 220.2
        v20 == Dbl(0, <<0, 9395, 3947, 14559, 7824>>)  \* 3.5e-05
        v21 == Dbl(168, <<5142, 6145, 5806, 10240>>)  \* 168.31386566666666
        v22 == Dbl(348, <<5142, 6145, 5806, 12288>>)  \* 348.3138656666667
    IN  { \* 0.0; speed and probe (10.0 -> 9.9) both retrograde
          Body(DDeg(0), DDeg(0), v1, DDeg(1), Neg(v2), v3, Neg(v4),
               Probe(DDeg(10), v5)),
          \* 0.5; speed and probe (24.0 -> 25.0) both direct
          Body(v6, DDeg(0), DDeg(0), v7, DDeg(1), DDeg(0), DDeg(0),
               Probe(DDeg(24), DDeg(25))),
          \* 359.5; speed 0, probe crosses 0 backwards (0.1 -> 359.9)
          Body(v8, DDeg(0), Neg(DDeg(2)), DDeg(1), DDeg(0), Neg(v9), v10,
               Probe(v11, v12)),
          \* 0.99609375; speed negative, probe raises
          Body(v13, DDeg(0), v14, v15, Neg(DDeg(1)), v4, v4,
               ProbeRaises),
          \* 75.0; speed direct, probe crosses 0 forwards (359.9 -> 0.1)
          Body(DDeg(75), DDeg(0), v9, DDeg(5), DDeg(13), Neg(v14), DDeg(0),
               Probe(v12, v11)),
          \* 30.0; speed slightly positive, probe 180.0 -> 0.0
          Body(DDeg(30), DDeg(0), Neg(v9), DDeg(1), v16, DDeg(0), v9,
               Probe(DDeg(180), DDeg(0))),
          \* 29.999999999999996 (the double before 30); speed slightly
          \* negative, probe 200.0 -> 199.99999999999997
          Body(v17, DDeg(0), v4, DDeg(1), Neg(v16), v9, DDeg(0),
               Probe(DDeg(200), v18)),
          \* 220.2; speed direct, probe 100.0 -> 281.0 (difference 181)
          Body(v19, DDeg(0), Neg(DDeg(4)), DDeg(3), v20, v16, Neg(v16),
               Probe(DDeg(100), DDeg(281))),
          \* 180.0; speed direct, probe 168.31386566666666 -> 348.3138656666667
          \* (the float difference is 180.00000000000003)
          Body(DDeg(180), DDeg(0), DDeg(3), DDeg(1), DDeg(1), DDeg(0), DDeg(0),
               Probe(v21, v22)) }

\* The sets of planets the engine answers for at that instant: at most
\* MaxBodies planets succeed, the others fail.
BodySets == UpTo(SeqToSet(planets), MaxBodies)

\* The orbs detect_aspects is called with in the single-snapshot
\* specification: 0.0, 0.9, 0.99609375, 1.0 (the default),
\* 14.999999999999998 (the double before 15), 15.0, 60.0.
Orbs ==
    LET v1 == Dbl(0, <<14745, 9830, 6553, 9832>>)  \* 0.9
        v2 == Dbl(0, <<16320>>)  \* 0.99609375
        v3 == Dbl(14, <<16383, 16383, 16383, 16256>>)  \* 14.999999999999998
    IN  {DDeg(0), v1, v2, default_orb, v3, DDeg(15), DDeg(60)}

---------------------------------------------------------------------------
(* Inputs of the driver: one of three skies, and at most MaxFaults faults. *)

MinuteStep == 15

MinutesPerHour == 60

SamplesPerHour == MinutesPerHour \div MinuteStep

GridCells == DaysInMonth * HoursPerDay * SamplesPerHour

\* Index 0.. of the grid cell (day, hour, minute) in the order of the loops.
CellIndex(d, h, m) ==
    ((d - 1) * HoursPerDay + h) * SamplesPerHour + m \div MinuteStep

\* Sun from 100.6 by 0.25 per cell; Moon one sign per cell from 10.5; Rahu
\* from 0.0625 backwards by 0.125 over 0 (so Ketu backwards over 180).
SkyA ==
    LET v1 == Dbl(100, <<9830, 6553, 9830, 6144>>)  \* 100.6
        v2 == Dbl(0, <<4096>>)  \* 0.25
        v3 == Dbl(0, <<0, 80, 8693, 15619, 6199, 6144>>)  \* 3e-07
        v4 == Dbl(10, <<8192>>)  \* 10.5
        v5 == Dbl(0, <<40, 15728, 10485, 12451, 13824>>)  \* 0.0025
        v6 == Dbl(0, <<0, 187, 14824, 9138, 9003, 14336>>)  \* 7e-07
        v7 == Dbl(0, <<1024>>)  \* 0.0625
        v8 == Dbl(359, <<14336>>)  \* 359.875
        v9 == Dbl(0, <<873, 13325, 10704, 3495, 8192>>)  \* 0.05333333333333334
        v10 == Dbl(23, <<15510, 3058, 5679, 12800>>)  \* 23.946666666666665
    IN  [p \in {"Sun", "Moon", "Rahu"} |->
            CASE p = "Sun"  -> Body(v1, v2, v3, DDeg(1), DDeg(1),
                                    DDeg(0), DDeg(0), Probe(DDeg(124), DDeg(125)))
              [] p = "Moon" -> Body(v4, DDeg(30), Neg(DDeg(5)), v5,
                                    DDeg(13), v6, DDeg(0),
                                    Probe(DDeg(34), DDeg(47)))
              [] p = "Rahu" -> Body(v7, v8, DDeg(0), v5, Neg(v9),
                                    DDeg(0), DDeg(0), Probe(DDeg(24), v10))]

\* The data files cover the Moon alone: from 15.0 by 30.000000000000004.
SkyB ==
    LET v1 == Dbl(30, <<0, 0, 0, 256>>)  \* 30.000000000000004
        v2 == Dbl(0, <<40, 15728, 10485, 12451, 13824>>)  \* 0.0025
        v3 == Dbl(0, <<0, 187, 14824, 9138, 9003, 14336>>)  \* 7e-07
        v4 == Dbl(0, <<0, 80, 8693, 15619, 6199, 6144>>)  \* 3e-07
    IN  [p \in {"Moon"} |->
            Body(DDeg(15), v1, DDeg(5), v2, DDeg(13), Neg(v3), v4,
                 Probe(DDeg(39), DDeg(52)))]

\* Mercury creeps over 30 from 29.999999999999993 by one step of 2^-48 per
\* cell; Venus stands at 29.5, within one degree of it.
SkyC ==
    LET v1 == Dbl(29, <<16383, 16383, 16383, 15872>>)  \* 29.999999999999993
        v2 == Dbl(0, <<0, 0, 0, 256>>)  \* 3.552713678800501e-15
        v3 == Dbl(0, <<0, 187, 14824, 9138, 9003, 14336>>)  \* 7e-07
        v4 == Dbl(1, <<0, 80, 8693, 15616>>)  \* 1.0000003
        v5 == Dbl(53, <<16383, 16383, 16383, 15872>>)  \* 53.99999999999999
        v6 == Dbl(29, <<8192>>)  \* 29.5
    IN  [p \in {"Mercury", "Venus"} |->
            CASE p = "Mercury" -> Body(v1, v2, v3, v4, Neg(v3),
                                       DDeg(0), DDeg(0), Probe(DDeg(54), v5))
              [] p = "Venus"   -> Body(v6, DDeg(0), DDeg(0), DDeg(1), DDeg(0),
                                       DDeg(0), DDeg(0), ProbeRaises)]

Skies == {SkyA, SkyB, SkyC}

\* The faults possible under a sky, and the sets of faults of one run: at
\* most MaxFaults of them.
Faults(sky) ==
    [cell : 0..(GridCells - 1), planet : DOMAIN sky]

FaultPlans(sky) == UpTo(Faults(sky), MaxFaults)

---------------------------------------------------------------------------
(* calculate_monthly_data *)

\* strftime of dt_local: year and month are fixed for a run, so the string
\* is modelled by <<day, hour, minute>>.
LocalStamp(d, h, m) == <<d, h, m>>

\* {'datetime': ..., **event} for every event of a list.
Stamped(dt, events) ==
    [i \in 1..Len(events) |-> ("datetime" :> dt) @@ events[i]]

\* The columns of one planet in a record.
Columns(pos) ==
    [Longitude      |-> Round6(pos.longitude),
     Latitude       |-> Round6(pos.latitude),
     Distance       |-> Round6(pos.distance),
     Sign           |-> pos.zodiac_sign,
     Degree         |-> pos.degree_formatted,
     Degree_Decimal |-> Round6(pos.degree_in_sign),
     Motion         |-> pos.motion,
     Retrograde     |-> pos.retrograde,
     Speed          |-> Round6(pos.longitude_speed)]

\* The record of one grid cell: the columns of every planet of planet_order
\* that is in positions.
SnapshotRecord(d, h, m, pos) ==
    [date           |-> d,
     time           |-> <<h, m>>,
     datetime_local |-> LocalStamp(d, h, m),
     cols           |-> [p \in {q \in SeqToSet(planet_order) : Has(pos, q)} |->
                            Columns(Get(pos, p))]]

\* Whether (day, hour, minute) is the last cell of the three nested loops.
LastCell(d, h, m) ==
    /\ m + MinuteStep >= MinutesPerHour
    /\ h + 1 >= HoursPerDay
    /\ d + 1 > DaysInMonth

\* One iteration of the innermost loop body (lines 185-237), then the step
\* of the loops to the next cell.
Iterate ==
    /\ pc = "loop"
    /\ \E pos \in {calculate_planetary_positions(
                         Answers(engine, CellIndex(day, hour, minute)))} :
       \E asp \in {detect_aspects(pos, default_orb)} :
       \E ing \in {detect_ingress(pos, prev_positions)} :
       LET dt == LocalStamp(day, hour, minute)
       IN  /\ positions' = pos
           /\ orb' = default_orb
           /\ aspects' = asp
           /\ ingress' = ing
           /\ aspects_all' = aspects_all \o Stamped(dt, asp)
           /\ ingress_all' = ingress_all \o Stamped(dt, ing)
           /\ prev_positions' = Some(pos)
           /\ all_data' = Append(all_data, SnapshotRecord(day, hour, minute, pos))
    /\ IF LastCell(day, hour, minute)
       THEN pc' = "return" /\ UNCHANGED <<day, hour, minute>>
       ELSE /\ pc' = "loop"
            /\ IF minute + MinuteStep < MinutesPerHour
               THEN minute' = minute + MinuteStep /\ UNCHANGED <<day, hour>>
               ELSE IF hour + 1 < HoursPerDay
                    THEN minute' = 0 /\ hour' = hour + 1 /\ UNCHANGED day
                    ELSE minute' = 0 /\ hour' = 0 /\ day' = day + 1
    /\ UNCHANGED engine

\* return all_data, aspects_all, ingress_all
Return ==
    /\ pc = "return"
    /\ pc' = "done"
    /\ UNCHANGED <<engine, orb, day, hour, minute, positions, prev_positions,
                   aspects, ingress, all_data, aspects_all, ingress_all>>

\* The state at the head of the loops: lines 173-181.
Init ==
    /\ \E sky \in Skies : \E F \in FaultPlans(sky) :
          engine = [sky |-> sky, faults |-> F]
    /\ orb = default_orb
    /\ pc = "loop"
    /\ day = 1
    /\ hour = 0
    /\ minute = 0
    /\ positions = <<>>
    /\ prev_positions = None
    /\ aspects = <<>>
    /\ ingress = <<>>
    /\ all_data = <<>>
    /\ aspects_all = <<>>
    /\ ingress_all = <<>>

Next == Iterate \/ Return

Spec == Init /\ [][Next]_vars

---------------------------------------------------------------------------
(* One snapshot and its aspects: calculate_planetary_positions followed by *)
(* detect_aspects with any orb, on any answers of the engine.              *)

SnapshotInit ==
    /\ \E B \in BodySets : \E sky \in [B -> Bodies] :
          engine = [sky |-> sky, faults |-> {}]
    /\ orb = default_orb
    /\ pc = "input"
    /\ day = 1
    /\ hour = 0
    /\ minute = 0
    /\ positions = <<>>
    /\ prev_positions = None
    /\ aspects = <<>>
    /\ ingress = <<>>
    /\ all_data = <<>>
    /\ aspects_all = <<>>
    /\ ingress_all = <<>>

SnapshotPositions ==
    /\ pc = "input"
    /\ positions' = calculate_planetary_positions(Answers(engine, 0))
    /\ pc' = "positions"
    /\ UNCHANGED <<engine, orb, day, hour, minute, prev_positions, aspects,
                   ingress, all_data, aspects_all, ingress_all>>

SnapshotAspects ==
    /\ pc = "positions"
    /\ \E o \in Orbs :
          /\ orb' = o
          /\ aspects' = detect_aspects(positions, o)
    /\ pc' = "aspects"
    /\ UNCHANGED <<engine, day, hour, minute, positions, prev_positions,
                   ingress, all_data, aspects_all, ingress_all>>

SnapshotNext == SnapshotPositions \/ SnapshotAspects

SnapshotSpec == SnapshotInit /\ [][SnapshotNext]_vars

---------------------------------------------------------------------------
(* The node specification: one snapshot of Rahu and one other planet whose *)
(* longitudes are neighbouring doubles, then detect_aspects with an orb    *)
(* from a neighbourhood of the default orb.                                *)

\* 2^-44, the spacing of the doubles between 256 and 512.
Tick == Dbl(0, <<0, 0, 0, 4096>>)

\* The two planets of a node snapshot at rest at the given longitudes.
AtRest(lon) ==
    Body(lon, DDeg(0), DDeg(0), DDeg(1), DDeg(0), DDeg(0), DDeg(0),
         Probe(lon, lon))

\* The longitudes the engine may answer: 0.3 and 359.3, and the doubles
\* within MaxLo steps of 2^-44 around 0.0, 59.5, 269.0, 299.0, 359.0 and
\* 359.99609375.
NodeLongitudes ==
    LET points == {DDeg(0), Dbl(59, <<8192>>), DDeg(269), DDeg(299),
                   DDeg(359), Dbl(359, <<16320>>)}
        steps  == {MagTimes(Tick, k) : k \in 0..MaxLo}
    IN  {MagSum(x, s) : x \in points, s \in steps}
           \cup {MagDiff(x, s) : x \in points \ {DDeg(0)}, s \in steps}
           \cup {Dbl(0, <<4915, 3276, 13107, 3276>>),     \* 0.3
                 Dbl(359, <<4915, 3276, 13107, 4096>>)}   \* 359.3

\* The orbs asked about: 0.0, 1 - 2^-44, the default 1.0, 1 + 3 * 2^-44
\* and 60.0.
NodeOrbs ==
    {DDeg(0), MagDiff(DDeg(1), Tick), default_orb,
     MagSum(DDeg(1), MagTimes(Tick, 3)), DDeg(60)}

NodeInit ==
    /\ \E p \in {"Sun", "Pluto"} : \E lp, lr \in NodeLongitudes :
          engine = [sky |-> (p :> AtRest(lp)) @@ ("Rahu" :> AtRest(lr)),
                    faults |-> {}]
    /\ orb = default_orb
    /\ pc = "input"
    /\ day = 1
    /\ hour = 0
    /\ minute = 0
    /\ positions = <<>>
    /\ prev_positions = None
    /\ aspects = <<>>
    /\ ingress = <<>>
    /\ all_data = <<>>
    /\ aspects_all = <<>>
    /\ ingress_all = <<>>

NodePositions ==
    /\ pc = "input"
    /\ positions' = calculate_planetary_positions(Answers(engine, 0))
    /\ pc' = "positions"
    /\ UNCHANGED <<engine, orb, day, hour, minute, prev_positions, aspects,
                   ingress, all_data, aspects_all, ingress_all>>

NodeAspects ==
    /\ pc = "positions"
    /\ \E o \in NodeOrbs :
          /\ orb' = o
          /\ aspects' = detect_aspects(positions, o)
    /\ pc' = "aspects"
    /\ UNCHANGED <<engine, day, hour, minute, positions, prev_positions,
                   ingress, all_data, aspects_all, ingress_all>>

NodeNext == NodePositions \/ NodeAspects

NodeSpec == NodeInit /\ [][NodeNext]_vars

---------------------------------------------------------------------------
(* Properties.                                                             *)

\* The indices of the ingress events of planet p in the ingress stream.
IngressOf(p) == {i \in 1..Len(ingress_all) : ingress_all[i].planet = p}

\* C1 (as claimed): in the ingress stream of a run of the driver, every
\* ingress event of a planet has as from_sign the to_sign of the preceding
\* ingress event of the same planet, also when the engine fails for some
\* planet at some sample.
C1_IngressChain ==
    \A p \in SeqToSet(planet_order) :
        \A i, j \in IngressOf(p) :
            (i < j /\ ~ \E k \in IngressOf(p) : i < k /\ k < j)
                => ingress_all[j].from_sign = ingress_all[i].to_sign

\* The indices of the aspect events of the last detect_aspects call for
\* the pair p1, p2 (in this order) and, in AspectsAt, the exact angle a.
AspectsOfPair(p1, p2) ==
    {k \in 1..Len(aspects) :
        aspects[k].planet1 = p1 /\ aspects[k].planet2 = p2}

AspectsAt(p1, p2, a) ==
    {k \in AspectsOfPair(p1, p2) : aspects[k].exact_angle = a}

\* The five exact angles, in degrees.
Angles == {0, 60, 90, 120, 180}

\* The shortest arc between two longitudes in the floats of the program:
\* the smaller of |l1 - l2| mod 360 and 360 less that.
Arc(l1, l2) ==
    LET a == Mod360(AbsSub(l1, l2))
        b == AbsSub(DDeg(360), a)
    IN  IF MagLeq(a, b) THEN a ELSE b

\* |d - a| <= o in the floats of the program, for an arc d, an angle a in
\* whole degrees and an orb o.
InOrb(d, a, o) == MagLeq(AbsSub(d, DDeg(a)), o)

\* The digits of r / den after the binary point, n limbs of them, followed
\* by a limb that says whether anything is left.
RECURSIVE Quotient(_, _, _)
Quotient(r, den, n) ==
    IF n = 0 THEN (IF r = 0 THEN <<>> ELSE <<1>>)
    ELSE <<(r * Limb) \div den>> \o Quotient((r * Limb) % den, den, n - 1)

\* The float that round(x, 4) returns when the result is count units of
\* 0.0001: the double nearest to count / 10000.
Recorded4(count) ==
    Nearest(Exact(count \div 10000, Quotient(count % 10000, 10000, 8)))

\* count units of 0.0001 is the decimal with 4 places nearest to the
\* number x >= 0, or one of the two nearest.
Rounds4(count, x) ==
    LET p    == MagTimes(x, 10000)
        half == Dbl(0, <<Limb \div 2>>)
    IN  \/ count = p.int /\ MagLeq(Frac(p), half)
        \/ count = p.int + 1 /\ MagLeq(half, Frac(p))

\* C2 (as claimed): Ketu is in a snapshot exactly when Rahu is, which is
\* exactly when the engine succeeded for Rahu; and then Ketu is Rahu's
\* mirror: longitude (Rahu + 180) mod 360 in the floats of the program,
\* sign six signs away, latitude and longitudinal speed negated, retrograde
\* flag and motion letter equal.
C2_KetuMirror ==
    pc \in {"positions", "aspects"} =>
        /\ Has(positions, "Ketu") <=> Has(positions, "Rahu")
        /\ Has(positions, "Rahu") <=> calc_ut(engine, 0, "Rahu").status = "ok"
        /\ Has(positions, "Rahu") =>
              LET rahu == Get(positions, "Rahu")
                  ketu == Get(positions, "Ketu")
              IN  /\ ketu.longitude
                        = Mod360(Add(rahu.longitude, DDeg(180)))
                  /\ ketu.sign_index = (rahu.sign_index + 6) % 12
                  /\ ketu.latitude = Neg(rahu.latitude)
                  /\ ketu.longitude_speed = Neg(rahu.longitude_speed)
                  /\ ketu.retrograde = rahu.retrograde
                  /\ ketu.motion = rahu.motion

\* C3 (as amended): detect_aspects emits an event of exact angle a for a
\* pair (other than Rahu-Ketu) exactly when |d - a| <= orb in the floats of
\* the program, d the shortest arc, and at most one per angle; the recorded
\* difference is d rounded to 4 decimals, so it is within 0.00005 of d and
\* in [0, 180].  Longitudes 359.5 and 0.5 give a Conjunction of difference
\* 1.0 at orb 1.0 and no event at orb 0.9.
C3_AspectIffWithinOrb ==
    pc = "aspects" =>
        /\ \A i, j \in 1..Len(positions) :
              (i < j /\ {positions[i].planet, positions[j].planet}
                            /= {"Rahu", "Ketu"}) =>
                 LET p1 == positions[i].planet
                     p2 == positions[j].planet
                     d  == Arc(positions[i].longitude, positions[j].longitude)
                 IN  /\ \A a \in Angles :
                           /\ Cardinality(AspectsAt(p1, p2, a)) <= 1
                           /\ AspectsAt(p1, p2, a) /= {} <=> InOrb(d, a, orb)
                     /\ \A k \in AspectsOfPair(p1, p2) :
                           /\ aspects[k].exact_angle \in Angles
                           /\ Rounds4(aspects[k].difference, d)
                           /\ aspects[k].difference >= 0
                           /\ aspects[k].difference <= 1800000
                     /\ ({positions[i].longitude, positions[j].longitude}
                            = {Dbl(359, <<8192>>), Dbl(0, <<8192>>)}) =>
                           /\ orb = DDeg(1) =>
                                 \E k \in AspectsAt(p1, p2, 0) :
                                    /\ aspects[k].type = "Conjunction"
                                    /\ aspects[k].difference = 10000
                           /\ orb = Dbl(0, <<14745, 9830, 6553, 9832>>) =>
                                 AspectsOfPair(p1, p2) = {}
        /\ \A k \in 1..Len(aspects) :
              \E i, j \in 1..Len(positions) :
                 /\ i < j
                 /\ aspects[k].planet1 = positions[i].planet
                 /\ aspects[k].planet2 = positions[j].planet

\* C3 witness: the pair at 359.5 and 0.5 degrees, orb 1.0, with its
\* Conjunction of difference 1.0 emitted.
C3_Witness ==
    /\ pc = "aspects"
    /\ orb = DDeg(1)
    /\ \E k \in 1..Len(aspects) :
          /\ aspects[k].type = "Conjunction"
          /\ aspects[k].difference = 10000
          /\ {Get(positions, aspects[k].planet1).longitude,
              Get(positions, aspects[k].planet2).longitude}
                = {Dbl(359, <<8192>>), Dbl(0, <<8192>>)}

\* C3 (as claimed): the same equivalence, and every emitted event has
\* 0 <= difference <= 180 and |difference - exact_angle| <= orb, for every
\* orb >= 0; difference is the recorded float.
C3_Original ==
    pc = "aspects" =>
        /\ \A i, j \in 1..Len(positions) :
              (i < j /\ {positions[i].planet, positions[j].planet}
                            /= {"Rahu", "Ketu"}) =>
                 \A a \in Angles :
                    AspectsAt(positions[i].planet, positions[j].planet, a) /= {}
                       <=> InOrb(Arc(positions[i].longitude,
                                     positions[j].longitude), a, orb)
        /\ \A k \in 1..Len(aspects) :
              /\ aspects[k].difference >= 0
              /\ aspects[k].difference <= 1800000
              /\ InOrb(Recorded4(aspects[k].difference),
                       aspects[k].exact_angle, orb)

\* C4: every aspect event has planet1 strictly before planet2 in the
\* canonical order, and none is for the pair Rahu, Ketu.
C4_CanonicalPairs ==
    \A k \in 1..Len(aspects) :
        /\ IndexOf(planet_order, aspects[k].planet1) >= 1
        /\ IndexOf(planet_order, aspects[k].planet1)
              < IndexOf(planet_order, aspects[k].planet2)
        /\ {aspects[k].planet1, aspects[k].planet2} /= {"Rahu", "Ketu"}

\* C4 witness: a snapshot with some planets omitted, Rahu and Ketu present,
\* and aspects emitted for a pair with Ketu.
C4_Witness ==
    /\ pc = "aspects"
    /\ Has(positions, "Rahu")
    /\ Has(positions, "Ketu")
    /\ Len(positions) < Len(planet_order)
    /\ \E k \in 1..Len(aspects) : aspects[k].planet2 = "Ketu"

\* C5: the first sample of a run contributes no ingress event: the call
\* of detect_ingress with prev_positions None returns the empty list, and
\* no event of the ingress stream is stamped with the first sample.
C5_FirstSampleNoIngress ==
    /\ Len(all_data) = 1 => ingress = <<>> /\ ingress_all = <<>>
    /\ \A k \in 1..Len(ingress_all) : ingress_all[k].datetime /= <<1, 0, 0>>

\* C5 witness: the state after the first sample, taken with planets in
\* different signs.
C5_Witness ==
    /\ Len(all_data) = 1
    /\ \E i, j \in 1..Len(positions) :
          positions[i].sign_index /= positions[j].sign_index

\* The indices of the ingress events of planet p stamped with dt.
IngressAt(p, dt) ==
    {k \in IngressOf(p) : ingress_all[k].datetime = dt}

\* C6: for every sample after the first and every planet recorded in that
\* sample's snapshot and in the one immediately before it, the ingress
\* stream holds exactly one event of that planet stamped with that sample if
\* the sign differs between the two snapshots and none otherwise; the event
\* has the earlier snapshot's sign as from_sign and the later snapshot's
\* sign, formatted degree and longitude.
C6_IngressPerSample ==
    \A n \in 2..Len(all_data) :
        \A p \in (DOMAIN all_data[n].cols) \cap (DOMAIN all_data[n - 1].cols) :
            LET cur  == all_data[n].cols[p]
                prev == all_data[n - 1].cols[p]
                E    == IngressAt(p, all_data[n].datetime_local)
            IN  /\ Cardinality(E) = IF cur.Sign /= prev.Sign THEN 1 ELSE 0
                /\ \A k \in E :
                      /\ ingress_all[k].from_sign = prev.Sign
                      /\ ingress_all[k].to_sign = cur.Sign
                      /\ ingress_all[k].degree = cur.Degree
                      /\ ingress_all[k].longitude = cur.Longitude

\* C6 witness: a run in which a planet changed sign at two samples, the
\* later event with a longitude other than the one before the change.
C6_Witness ==
    \E p \in SeqToSet(planet_order) :
        \E i, j \in IngressOf(p) :
            /\ i < j
            /\ \E n \in 2..Len(all_data) :
                  /\ all_data[n].datetime_local = ingress_all[j].datetime
                  /\ p \in DOMAIN all_data[n - 1].cols
                  /\ all_data[n - 1].cols[p].Longitude
                        /= ingress_all[j].longitude

\* C7: every planet of a snapshot has 0 <= longitude < 360, a sign index in
\* 0..11 that is floor(longitude / 30), 0 <= degree_in_sign < 30 with
\* longitude = 30 * sign_index + degree_in_sign exactly, and the sign name
\* of that index; longitude 0 is sign 0 at degree 0, longitude 30 is sign 1.
C7_ZodiacPlacement ==
    \A i \in 1..Len(positions) :
        LET e == positions[i]
        IN  /\ ~e.longitude.neg /\ MagLess(e.longitude, DDeg(360))
            /\ e.sign_index \in 0..11
            /\ MagLeq(DDeg(30 * e.sign_index), e.longitude)
            /\ MagLess(e.longitude, DDeg(30 * (e.sign_index + 1)))
            /\ ~e.degree_in_sign.neg /\ MagLess(e.degree_in_sign, DDeg(30))
            /\ e.longitude = MagSum(DDeg(30 * e.sign_index), e.degree_in_sign)
            /\ e.zodiac_sign = zodiac_signs[e.sign_index + 1]
            /\ e.longitude = DDeg(0) =>
                  e.sign_index = 0 /\ e.degree_in_sign = DDeg(0)
            /\ e.longitude = DDeg(30) => e.sign_index = 1

\* C7 witness: a snapshot with planets at exactly 0 and exactly 30 degrees.
C7_Witness ==
    /\ pc = "positions"
    /\ \E i, j \in 1..Len(positions) :
          /\ positions[i].longitude = DDeg(0)
          /\ positions[j].longitude = DDeg(30)
          /\ positions[j].zodiac_sign = "Taurus"

\* What the probe of is_retrograde says, from its definition: the one-day
\* change of longitude, a float, taken the short way round when its size
\* exceeds 180, is strictly negative.
ProbeSaysRetrograde(probe) ==
    /\ probe.status = "ok"
    /\ LET falls == MagLess(probe.next, probe.now)
           size  == AbsSub(probe.next, probe.now)
       IN  \/ falls /\ MagLeq(size, DDeg(180))
           \/ ~falls /\ MagLess(DDeg(180), size) /\ MagLess(size, DDeg(360))

\* C8 (as amended): for every planet of a snapshot the motion letter is R
\* when the retrograde flag is true and D otherwise; for an engine planet
\* the flag is what the probe of is_retrograde says (false when the probe
\* raises), whatever the recorded longitude_speed; Ketu has Rahu's flag.
C8_RetrogradeFromProbe ==
    pc \in {"positions", "aspects"} =>
        \A i \in 1..Len(positions) :
            LET e == positions[i]
            IN  /\ e.motion = IF e.retrograde THEN "R" ELSE "D"
                /\ e.planet /= "Ketu" =>
                      (e.retrograde <=>
                          ProbeSaysRetrograde(calc_ut(engine, 0, e.planet).probe))
                /\ e.planet = "Ketu" =>
                      e.retrograde = Get(positions, "Rahu").retrograde

\* C8 witness: a snapshot with a planet flagged retrograde whose recorded
\* speed is not negative, and one not flagged whose speed is negative.
C8_Witness ==
    /\ pc = "positions"
    /\ \E i, j \in 1..Len(positions) :
          /\ positions[i].retrograde
          /\ ~IsNegative(positions[i].longitude_speed)
          /\ ~positions[j].retrograde
          /\ IsNegative(positions[j].longitude_speed)

\* C8 (as claimed): for every planet of a snapshot, Ketu included, the
\* retrograde flag is true and the letter is R exactly when the recorded
\* longitude_speed is strictly negative.
C8_Original ==
    \A i \in 1..Len(positions) :
        /\ positions[i].retrograde <=> IsNegative(positions[i].longitude_speed)
        /\ positions[i].motion = "R"
              <=> IsNegative(positions[i].longitude_speed)

\* The engine planets the engine succeeds for at grid cell n.
Succeeds(n) ==
    {p \in SeqToSet(planets) : calc_ut(engine, n, p).status = "ok"}

\* Lexicographic order of <<day, hour, minute>>.
Before(s, t) ==
    \/ s[1] < t[1]
    \/ (s[1] = t[1] /\ s[2] < t[2])
    \/ (s[1] = t[1] /\ s[2] = t[2] /\ s[3] < t[3])

\* C9: failing engine calls never stop the run.  Every sample the loops
\* have passed left exactly one record, whatever failed; the records are in
\* strictly increasing time order; the record of a sample holds exactly the
\* planets the engine succeeded for at that sample (and Ketu with Rahu), so
\* a failed planet is missing from that sample only; once the loops are
\* left there are days x hours x 4 records, one per 15-minute sample.
C9_FailuresDoNotStopTheRun ==
    /\ pc = "loop" => Len(all_data) = CellIndex(day, hour, minute)
    /\ \A i, j \in 1..Len(all_data) :
          i < j => Before(all_data[i].datetime_local, all_data[j].datetime_local)
    /\ \A n \in 1..Len(all_data) :
          DOMAIN all_data[n].cols =
             Succeeds(n - 1)
                \cup (IF "Rahu" \in Succeeds(n - 1) THEN {"Ketu"} ELSE {})
    /\ pc \in {"return", "done"} =>
          /\ Len(all_data) = DaysInMonth * HoursPerDay * SamplesPerHour
          /\ \A d \in 1..DaysInMonth : \A h \in 0..(HoursPerDay - 1) :
                \A m \in {0, 15, 30, 45} :
                   Cardinality({n \in 1..Len(all_data) :
                                   all_data[n].datetime_local = <<d, h, m>>}) = 1

\* C9 witness: a finished run in which the engine failed for one covered
\* planet at one sample while another planet was recorded at that sample
\* and the failed planet was recorded at the samples around it.
C9_Witness ==
    /\ pc = "done"
    /\ \E f \in engine.faults :
          /\ f.cell >= 1
          /\ f.cell + 2 <= Len(all_data)
          /\ f.planet \notin DOMAIN all_data[f.cell + 1].cols
          /\ DOMAIN all_data[f.cell + 1].cols /= {}
          /\ f.planet \in DOMAIN all_data[f.cell].cols
          /\ f.planet \in DOMAIN all_data[f.cell + 2].cols

\* C10 (as amended): a pair has more than one aspect event in a snapshot
\* only if the orb is at least 15 degrees; for every smaller orb (the
\* default 1.0 among them) a pair has at most one.
C10_MultipleAspectsNeedOrb15 ==
    pc = "aspects" =>
        \A i, j \in 1..Len(positions) :
            Cardinality(AspectsOfPair(positions[i].planet, positions[j].planet)) > 1
                => MagLeq(DDeg(15), orb)

\* C10 witness: a pair with two aspect events at an orb of exactly 15.
C10_Witness ==
    /\ pc = "aspects"
    /\ orb = DDeg(15)
    /\ \E i, j \in 1..Len(positions) :
          Cardinality(AspectsOfPair(positions[i].planet, positions[j].planet)) = 2

\* C10 (as claimed): a pair has more than one aspect event only if the orb
\* exceeds 60 degrees.
C10_Original ==
    pc = "aspects" =>
        \A i, j \in 1..Len(positions) :
            Cardinality(AspectsOfPair(positions[i].planet, positions[j].planet)) > 1
                => MagLess(DDeg(60), orb)

\* C11 (as claimed): in a snapshot with Rahu and Ketu, for every other
\* planet P and every angle a, detect_aspects emits an aspect of angle a
\* between P and Rahu exactly when it emits one of angle 180 - a between P
\* and Ketu, and the two events have the same orb residual.
C11_NodeDuality ==
    pc = "aspects" =>
        \A i \in 1..Len(positions) :
            LET P == positions[i].planet
            IN  P \notin {"Rahu", "Ketu"} =>
                   \A a \in Angles :
                      /\ AspectsAt(P, "Rahu", a) /= {}
                            <=> AspectsAt(P, "Ketu", 180 - a) /= {}
                      /\ \A k \in AspectsAt(P, "Rahu", a) :
                            \A l \in AspectsAt(P, "Ketu", 180 - a) :
                               aspects[k].orb = aspects[l].orb

=============================================================================
